---- MODULE Spec2Model ----
(***************************************************************************)
(* A model of the Hayroll / C2Rust validation pipelines of this repository *)
(*                                                                         *)
(*   src/src/preprocessing.py   get_compile_flag_combinations              *)
(*   src/src/test_runner.py     run_tests and the functions it drives      *)
(*   src/scripts/run_tests.py   run_tests, run_stage, run_command          *)
(*   src/benchmark.py           the module-level benchmark loop            *)
(*                                                                         *)
(* Every external command is a step of the environment: its outcome is     *)
(* drawn nondeterministically, and each driver is a state machine whose    *)
(* actions are the functions that run those commands.                      *)
(*                                                                         *)
(* src/src/test_runner.py builds Status(passed=..., stdout=..., stderr=...)*)
(* and reads status.passed, so Status is modelled as the record the runner *)
(* uses (src/src/models.py of this revision still declares the older enum).*)
(***************************************************************************)
EXTENDS Integers, Sequences, FiniteSets, TLC

VARIABLES
    \* ---- src/src/preprocessing.py, called on its own
    compile_flags,          \* the argument of get_compile_flag_combinations
    combinations,           \* its return value (<<>> before the call)
    f_pc,                   \* "idle" | "call" | "returned"
    defaults,               \* the default list of recursive_update (line 24)
    refs,                   \* the list objects in compile_flag_combinations
    calls,                  \* the calls made so far: arguments and returns
    \* ---- src/src/test_runner.py
    test_programs,          \* get_test_programs()
    program_results,        \* run_tests: program_results
    prog,                   \* index of the program of the current iteration
    pc,                     \* the function run_tests runs next
    ci,                     \* index of the flag combination of the current loop
    ti,                     \* index of the test file of the current loop
    c_test_results,         \* run_c_tests: c_test_results
    transpile_results,      \* run_tests: transpile_results
    rust_test_results,      \* run_rust_tests: rust_test_results
    compile_result,         \* compile_result of the current combination
    test_results,           \* test_results of the current combination
    cmds,                   \* every command run_command has run, in order
    nfail,                  \* failing outcomes the environment has chosen
    outcomes,               \* what subprocess.run may do in this behaviour
    run,                    \* 1, or 2 in the second run of the isolation comparison
    baseline,               \* the commands of run 1 (isolation comparison)
    baseline_results,       \* program_results of run 1 (isolation comparison)
    forced,                 \* the program whose Build outcomes run 2 may change
    \* ---- src/scripts/run_tests.py
    metadata,               \* metadata["programs"]
    overall_results,        \* run_tests: overall_results
    program_result,         \* run_tests: program_result of the iteration
    s_prog,                 \* index of the program of the current iteration
    s_pc,                   \* the stage run_tests runs next
    s_ti,                   \* index of the test of the per-test loop
    raised,                 \* an exception reached `except Exception`
    written,                \* what was dumped to test_results.json
    s_cmds,                 \* every command run_command was given, in order
    s_nfail,                \* failing outcomes the environment has chosen
    \* ---- src/benchmark.py
    benchmark_metadata,     \* benchmark_metadata["programs"]
    b_results,              \* results
    b_program_result,       \* program_result of the iteration
    b_prog,                 \* index of the program of the current iteration
    b_pc,                   \* the statement the script runs next
    b_ti,                   \* index of the test file of the test loop
    cwd,                    \* the working directory of the process
    dumped,                 \* what was dumped to benchmark_summary.json
    b_cmds,                 \* every command run was given, in order
    b_nfail,                \* failing outcomes the environment has chosen
    \* ---- src/scripts/run_tests.py: run_stage, called on its own
    rs_result_dict,         \* the argument result_dict, which the call mutates
    rs_before,              \* result_dict as it was when run_stage was called
    rs_stage,               \* str(stage) of the argument stage
    rs_outcome,             \* what subprocess.run did with the command
    rs_returned,            \* the value run_stage returned
    rs_pc                   \* "idle" | "call" | "returned" | "raised"

runner_vars == <<test_programs, program_results, prog, pc, ci, ti,
                 c_test_results, transpile_results, rust_test_results,
                 compile_result, test_results, cmds, nfail, outcomes, run,
                 baseline, baseline_results, forced>>
flag_vars == <<compile_flags, combinations, f_pc, defaults, refs, calls>>
script_vars == <<metadata, overall_results, program_result, s_prog, s_pc,
                 s_ti, raised, written, s_cmds, s_nfail>>
bench_vars == <<benchmark_metadata, b_results, b_program_result, b_prog, b_pc,
                b_ti, cwd, dumped, b_cmds, b_nfail>>
stage_vars == <<rs_result_dict, rs_before, rs_stage, rs_outcome, rs_returned,
                rs_pc>>
vars == <<flag_vars, runner_vars, script_vars, bench_vars, stage_vars>>

\* ------------------------------------------------------------------ bounds
MaxFails == 1
MaxScriptFails == 2
MaxBenchFails == 2
MaxComboFlags == 3
MaxCalls == 3

RECURSIVE Pow2(_)
Pow2(n) == IF n = 0 THEN 1 ELSE 2 * Pow2(n - 1)

\* ------------------------------------------------ src/src/preprocessing.py

\* " ".join(compile_flag)
RECURSIVE Join(_)
Join(words) ==
    IF words = <<>> THEN ""
    ELSE IF Len(words) = 1 THEN words[1]
    ELSE words[1] \o " " \o Join(Tail(words))

\* recursive_update without its first recursive call (the exclude branch).
RECURSIVE recursive_update_include_only(_, _, _)
recursive_update_include_only(flags, i, current_combination) ==
    IF i = Len(flags)
    THEN <<current_combination>>
    ELSE recursive_update_include_only(flags, i + 1,
                                       Append(current_combination, flags[i + 1]))

\* recursive_update with its two recursive calls in the other order (the
\* include branch first).
RECURSIVE recursive_update_include_first(_, _, _)
recursive_update_include_first(flags, i, current_combination) ==
    IF i = Len(flags)
    THEN <<current_combination>>
    ELSE recursive_update_include_first(flags, i + 1,
                                        Append(current_combination,
                                               flags[i + 1]))
         \o recursive_update_include_first(flags, i + 1, current_combination)

\* recursive_update(i, current_combination): the combinations it appends to
\* compile_flag_combinations, in the order it appends them.  i counts the
\* flags already decided, so the flag the code calls compile_flags[i] is
\* flags[i + 1] here.
RECURSIVE recursive_update(_, _, _)
recursive_update(flags, i, current_combination) ==
    IF i = Len(flags)
    THEN <<current_combination>>
    ELSE recursive_update(flags, i + 1, current_combination)
         \o recursive_update(flags, i + 1,
                             Append(current_combination, flags[i + 1]))

get_compile_flag_combinations(flags) ==
    LET compile_flag_combinations == recursive_update(flags, 0, <<>>)
    IN  [k \in DOMAIN compile_flag_combinations |->
            Join(compile_flag_combinations[k])]

\* recursive_update changing current_combination in place
\* (current_combination.append) instead of building a new list.
RECURSIVE recursive_update_in_place(_, _, _, _)
recursive_update_in_place(flags, i, current_combination, st) ==
    IF i = Len(flags)
    THEN [st EXCEPT !.out = Append(@, current_combination)]
    ELSE LET excluded ==
                 recursive_update_in_place(flags, i + 1, current_combination,
                                           st)
             extended ==
                 [excluded EXCEPT
                     !.heap[current_combination] = Append(@, flags[i + 1])]
         IN  recursive_update_in_place(flags, i + 1, current_combination,
                                       extended)

\* recursive_update on list objects (lines 24-29).  st.heap[r] is the content
\* of the list object r and st.out the objects appended to
\* compile_flag_combinations so far; current_combination is an object, and
\* current_combination + [compile_flags[i]] a new one, built from the content
\* current_combination has after the first recursive call.
RECURSIVE recursive_update_objects(_, _, _, _)
recursive_update_objects(flags, i, current_combination, st) ==
    IF i = Len(flags)
    THEN [st EXCEPT !.out = Append(@, current_combination)]
    ELSE LET excluded ==
                 recursive_update_objects(flags, i + 1, current_combination,
                                          st)
             extended ==
                 [excluded EXCEPT
                     !.heap = Append(@, Append(@[current_combination],
                                               flags[i + 1]))]
         IN  recursive_update_objects(flags, i + 1, Len(extended.heap),
                                      extended)

\* get_compile_flag_combinations on list objects (lines 22-32): the def of
\* line 24 is run by every call and makes the default list, object 1, empty;
\* the call returns the joined contents of the objects appended, and leaves
\* the default list and the objects as they are at line 32.
get_compile_flag_combinations_objects(flags) ==
    LET st == recursive_update_objects(flags, 0, 1,
                                       [heap |-> <<<<>>>>, out |-> <<>>])
    IN  [returned |-> [k \in DOMAIN st.out |-> Join(st.heap[st.out[k]])],
         defaults |-> st.heap[1],
         refs |-> st.out]

\* --------------------------------------------------- src/src/test_runner.py

\* What subprocess.run can do with a command: exit 0, exit non-zero, or
\* raise before the command runs (the working directory is missing, ...).
CmdOutcomes == {"ok", "nonzero", "spawn_error"}

\* run_command: the Status it returns for each outcome of subprocess.run.
run_command(o) ==
    IF o = "ok" THEN [passed |-> TRUE, stderr |-> ""]
    ELSE IF o = "nonzero" THEN [passed |-> FALSE, stderr |-> "stderr"]
    ELSE [passed |-> FALSE, stderr |-> "Command failed: error"]

\* Status(passed=...), the other fields left at their defaults.
Status(passed) == [passed |-> passed, stderr |-> ""]

\* The optional flags and the test files a program of the model may list,
\* and the names of the programs by position.
FlagNames == <<"-DFOO">>
TestFiles == <<"tests/t1.c", "tests/t2.c">>
ProgramNames == <<"p1", "p2">>

\* ProgramMetadata: the programs test_programs.json can list: any prefix of
\* TestFiles as tests, any prefix of FlagNames as compile_flags.  The path of
\* a program is its position in the list.
ProgramMetadata ==
    [tests : {SubSeq(TestFiles, 1, t) : t \in 0..Len(TestFiles)},
     compile_flags : {SubSeq(FlagNames, 1, f) : f \in 0..Len(FlagNames)}]

\* get_test_programs(): any list of programs, one per name at most.
get_test_programs ==
    UNION {[1..n -> ProgramMetadata] : n \in 0..Len(ProgramNames)}

program == test_programs[prog]
compile_flag_combinations ==
    get_compile_flag_combinations(program.compile_flags)

\* One entry of the command log: the command, the place in run_tests that
\* ran it (program, side, combination, test file) and what subprocess.run did.
Entry(side, cmd, flag, c, t, o) ==
    [prog |-> prog, side |-> side, ci |-> c, ti |-> t, cmd |-> cmd,
     flag |-> flag, o |-> o]

Key(e) == <<e.prog, e.side, e.ci, e.ti, e.cmd>>

\* The Build commands of program a: bear -- make DEFINES="..." in its path.
IsBuildOf(key, a) == key[1] = a /\ key[5] = "make"

\* The second run of the isolation comparison replays the outcome run 1 saw for
\* the same command, except for the Build commands of the forced program.
Replayed(key) ==
    /\ run = 2
    /\ ~IsBuildOf(key, forced)
    /\ \E k \in DOMAIN baseline : Key(baseline[k]) = key

\* The outcomes with which subprocess.run may come back for the command run
\* at (side, c, t); a command that does not terminate ("hang") never comes
\* back, see CommandHangs.
Outcomes(side, cmd, c, t) ==
    LET key == <<prog, side, c, t, cmd>>
    IN  IF Replayed(key)
        THEN {baseline[k].o :
                 k \in {j \in DOMAIN baseline : Key(baseline[j]) = key}}
        ELSE outcomes \ {"hang"}

\* The environment chooses at most MaxFails failing outcomes in a run.
Cost(e) == IF e.o # "ok" /\ ~Replayed(Key(e)) THEN 1 ELSE 0

RECURSIVE SumCost(_)
SumCost(es) == IF es = <<>> THEN 0 ELSE Cost(es[1]) + SumCost(Tail(es))

\* The commands es are run, in order.
Ran(es) ==
    /\ nfail + SumCost(es) <= MaxFails
    /\ nfail' = nfail + SumCost(es)
    /\ cmds' = cmds \o es

\* all(test_result.status.passed for test_result in test_results)
all_passed(results) == \A k \in DOMAIN results : results[k].status.passed

NoStatus == Status(FALSE)
NoCompileResult == [status |-> NoStatus, compile_flag |-> ""]

\* The test files are run whatever the build did.
RunsTestsAlways(result) == TRUE

\* run_c_tests, lines 82-83 / run_rust_tests, lines 179-180: the test files
\* of a combination are run only when its build passed.
RunsTests(result) == result.status.passed

\* A TestResults whose status is the status of the build alone.
CTestResultsBuildOnly(result, results) ==
    [status |-> Status(result.status.passed), compile_result |-> result,
     test_results |-> results]

\* run_c_tests, lines 88-98: the TestResults appended for a combination.
CTestResults(result, results) ==
    LET test_status == all_passed(results)
        is_tests_passed == result.status.passed /\ test_status
        c_test_status == Status(result.status.passed /\ is_tests_passed)
    IN  [status |-> c_test_status, compile_result |-> result,
         test_results |-> results]

\* run_rust_tests, lines 185-194.
RustTestResults(result, results) ==
    LET test_status == all_passed(results)
        overall_status == Status(result.status.passed /\ test_status)
    IN  [status |-> overall_status, compile_result |-> result,
         test_results |-> results]

\* A program status that also looks at the programs recorded before it.
ProgramStatusCarried(c_results, transpile) ==
    Status(/\ all_passed(c_results)
           /\ transpile.passed
           /\ \A k \in DOMAIN program_results :
                  all_passed(program_results[k].c_test_results))

\* run_tests, line 217.
ProgramStatus(c_results, transpile) ==
    LET is_c_test_passed == all_passed(c_results)
    IN  Status(is_c_test_passed /\ transpile.passed)

\* run_tests, lines 218-226.
ProgramResults(c_results, transpile, rust_results) ==
    [name |-> ProgramNames[prog],
     status |-> ProgramStatus(c_results, transpile),
     c_test_results |-> c_results,
     transpile_results |-> transpile,
     rust_test_results |-> rust_results]

\* link_and_run_rust_test, lines 148-163: the SingleTestResult it returns.
LinkAndRunResult(test_file, link_status, test_status) ==
    IF ~link_status.passed
    THEN [status |-> [passed |-> FALSE,
                      stderr |-> "Link failed: " \o link_status.stderr],
          test_file |-> test_file]
    ELSE [status |-> test_status, test_file |-> test_file]

\* The state of run_tests when it enters the iteration of program p (the
\* state after the loop when there is none).
StartProgram(p) ==
    /\ prog' = p
    /\ pc' = IF p <= Len(test_programs) THEN "compile_c_program" ELSE "done"
    /\ ci' = IF p <= Len(test_programs) THEN 1 ELSE 0
    /\ ti' = 0
    /\ c_test_results' = <<>>
    /\ transpile_results' = NoStatus
    /\ rust_test_results' = <<>>
    /\ compile_result' = NoCompileResult
    /\ test_results' = <<>>

\* run_c_tests leaving its loop at the first combination whose build failed.
EndCCombinationBreak(result, results) ==
    /\ c_test_results' = Append(c_test_results, CTestResults(result, results))
    /\ compile_result' = NoCompileResult
    /\ test_results' = <<>>
    /\ ti' = 0
    /\ IF ci < Len(compile_flag_combinations) /\ result.status.passed
       THEN ci' = ci + 1 /\ pc' = "compile_c_program"
       ELSE ci' = 0 /\ pc' = "run_transpile"
    /\ UNCHANGED <<prog, transpile_results, rust_test_results, program_results>>

\* run_c_tests, lines 88-100: the combination is recorded and the loop goes
\* on to the next combination; after the last one run_tests calls
\* run_transpile.
EndCCombination(result, results) ==
    /\ c_test_results' = Append(c_test_results, CTestResults(result, results))
    /\ compile_result' = NoCompileResult
    /\ test_results' = <<>>
    /\ ti' = 0
    /\ IF ci < Len(compile_flag_combinations)
       THEN ci' = ci + 1 /\ pc' = "compile_c_program"
       ELSE ci' = 0 /\ pc' = "run_transpile"
    /\ UNCHANGED <<prog, transpile_results, rust_test_results, program_results>>

\* compile_c_program giving up the build when `make clean` failed.
compile_c_program_after_clean(side, compile_flag, c, oc, ob) ==
    IF oc = "ok"
    THEN <<Entry(side, "make clean", "", c, 0, oc),
           Entry(side, "make", compile_flag, c, 0, ob)>>
    ELSE <<Entry(side, "make clean", "", c, 0, oc)>>

\* compile_c_program, lines 51-52: the commands it runs in program_path, for
\* the caller at (side, c): `make clean`, whose Status is dropped, then
\* bear -- make DEFINES="compile_flag".
compile_c_program(side, compile_flag, c, oc, ob) ==
    <<Entry(side, "make clean", "", c, 0, oc),
      Entry(side, "make", compile_flag, c, 0, ob)>>

\* compile_c_program, called by run_c_tests for combination ci (lines 79-83).
CompileCProgram ==
    /\ pc = "compile_c_program"
    /\ \E oc \in Outcomes("c", "make clean", ci, 0),
          ob \in Outcomes("c", "make", ci, 0) :
        LET compile_flag == compile_flag_combinations[ci]
            result == [status |-> run_command(ob),
                       compile_flag |-> compile_flag]
        IN  /\ Ran(compile_c_program("c", compile_flag, ci, oc, ob))
            /\ IF RunsTests(result) /\ program.tests # <<>>
               THEN /\ compile_result' = result
                    /\ test_results' = <<>>
                    /\ ti' = 1
                    /\ pc' = "run_single_test"
                    /\ UNCHANGED <<prog, ci, c_test_results, transpile_results,
                                   rust_test_results, program_results>>
               ELSE EndCCombination(result, <<>>)
    /\ UNCHANGED <<test_programs, outcomes, run, baseline, baseline_results,
                   forced, flag_vars, script_vars, bench_vars, stage_vars>>

\* run_single_test, called by run_c_tests for test file ti (lines 84-86).
RunSingleTest ==
    /\ pc = "run_single_test"
    /\ \E o \in Outcomes("c", "test", ci, ti) :
        LET test_file == program.tests[ti]
            test_result == [status |-> run_command(o), test_file |-> test_file]
            results == Append(test_results, test_result)
        IN  /\ Ran(<<Entry("c", "test", test_file, ci, ti, o)>>)
            /\ IF ti < Len(program.tests)
               THEN /\ test_results' = results
                    /\ ti' = ti + 1
                    /\ UNCHANGED <<prog, pc, ci, c_test_results, compile_result,
                                   transpile_results, rust_test_results,
                                   program_results>>
               ELSE EndCCombination(compile_result, results)
    /\ UNCHANGED <<test_programs, outcomes, run, baseline, baseline_results,
                   forced, flag_vars, script_vars, bench_vars, stage_vars>>

\* run_transpile building the program without any optional flag.
no_flags(flags) == ""

\* run_transpile, line 109: all_flags = " ".join(program.compile_flags)
all_flags(flags) == Join(flags)

\* run_transpile (lines 103-115), then run_tests enters run_rust_tests.
RunTranspile ==
    /\ pc = "run_transpile"
    /\ \E oc \in Outcomes("transpile", "make clean", 0, 0),
          ob \in Outcomes("transpile", "make", 0, 0),
          ot \in Outcomes("transpile", "hayroll", 0, 0) :
        /\ Ran(compile_c_program("transpile",
                                 all_flags(program.compile_flags), 0, oc, ob)
               \o <<Entry("transpile", "hayroll", "", 0, 0, ot)>>)
        /\ transpile_results' = run_command(ot)
    /\ pc' = "compile_rust_program"
    /\ ci' = 1
    /\ UNCHANGED <<prog, ti, c_test_results, rust_test_results, compile_result,
                   test_results, program_results>>
    /\ UNCHANGED <<test_programs, outcomes, run, baseline, baseline_results,
                   forced, flag_vars, script_vars, bench_vars, stage_vars>>

\* run_rust_tests, lines 185-196, and run_tests, lines 217-228: the
\* combination is recorded; after the last one the program's results are
\* appended and run_tests goes on to the next program.
EndRustCombination(result, results) ==
    LET rust_results ==
            Append(rust_test_results, RustTestResults(result, results))
    IN  IF ci < Len(compile_flag_combinations)
        THEN /\ rust_test_results' = rust_results
             /\ compile_result' = NoCompileResult
             /\ test_results' = <<>>
             /\ ti' = 0
             /\ ci' = ci + 1
             /\ pc' = "compile_rust_program"
             /\ UNCHANGED <<prog, c_test_results, transpile_results,
                            program_results>>
        ELSE /\ program_results' =
                    Append(program_results,
                           ProgramResults(c_test_results, transpile_results,
                                          rust_results))
             /\ StartProgram(prog + 1)

\* compile_rust_program, called by run_rust_tests (lines 173-180).
CompileRustProgram ==
    /\ pc = "compile_rust_program"
    /\ \E ob \in Outcomes("rust", "cargo build", ci, 0) :
        LET compile_flag == compile_flag_combinations[ci]
            result == [status |-> run_command(ob),
                       compile_flag |-> compile_flag]
        IN  /\ Ran(<<Entry("rust", "cargo build", compile_flag, ci, 0, ob)>>)
            /\ IF RunsTests(result) /\ program.tests # <<>>
               THEN /\ compile_result' = result
                    /\ test_results' = <<>>
                    /\ ti' = 1
                    /\ pc' = "link_and_run_rust_test"
                    /\ UNCHANGED <<prog, ci, c_test_results, transpile_results,
                                   rust_test_results, program_results>>
               ELSE EndRustCombination(result, <<>>)
    /\ UNCHANGED <<test_programs, outcomes, run, baseline, baseline_results,
                   forced, flag_vars, script_vars, bench_vars, stage_vars>>

\* link_and_run_rust_test running the executable whatever the link did.
LinkAndRunCommandsUnguarded(test_file, ol, oe) ==
    <<Entry("rust", "gcc", test_file, ci, ti, ol),
      Entry("rust", "rust_test", test_file, ci, ti, oe)>>

\* The commands link_and_run_rust_test runs (lines 146-158): the link, and
\* the linked executable when the link passed.
LinkAndRunCommands(test_file, ol, oe) ==
    IF run_command(ol).passed
    THEN <<Entry("rust", "gcc", test_file, ci, ti, ol),
           Entry("rust", "rust_test", test_file, ci, ti, oe)>>
    ELSE <<Entry("rust", "gcc", test_file, ci, ti, ol)>>

\* link_and_run_rust_test, called by run_rust_tests for test file ti
\* (lines 181-183).
LinkAndRunRustTest ==
    /\ pc = "link_and_run_rust_test"
    /\ \E ol \in Outcomes("rust", "gcc", ci, ti),
          oe \in Outcomes("rust", "rust_test", ci, ti) :
        LET test_file == program.tests[ti]
            test_result == LinkAndRunResult(test_file, run_command(ol),
                                            run_command(oe))
            results == Append(test_results, test_result)
        IN  /\ run_command(ol).passed \/ oe = "ok"
            /\ Ran(LinkAndRunCommands(test_file, ol, oe))
            /\ IF ti < Len(program.tests)
               THEN /\ test_results' = results
                    /\ ti' = ti + 1
                    /\ UNCHANGED <<prog, pc, ci, c_test_results, compile_result,
                                   transpile_results, rust_test_results,
                                   program_results>>
               ELSE EndRustCombination(compile_result, results)
    /\ UNCHANGED <<test_programs, outcomes, run, baseline, baseline_results,
                   forced, flag_vars, script_vars, bench_vars, stage_vars>>

FlagsIdle ==
    /\ compile_flags = <<>>
    /\ combinations = <<>>
    /\ f_pc = "idle"
    /\ defaults = <<>>
    /\ refs = <<>>
    /\ calls = <<>>

NoResult == [status |-> "none"]

ScriptIdle ==
    /\ metadata = <<>>
    /\ overall_results = <<>>
    /\ program_result = NoResult
    /\ s_prog = 0
    /\ s_pc = "idle"
    /\ s_ti = 0
    /\ raised = FALSE
    /\ written = NoResult
    /\ s_cmds = <<>>
    /\ s_nfail = 0

BenchIdle ==
    /\ benchmark_metadata = <<>>
    /\ b_results = <<>>
    /\ b_program_result = NoResult
    /\ b_prog = 0
    /\ b_pc = "idle"
    /\ b_ti = 0
    /\ cwd = "root_dir"
    /\ dumped = NoResult
    /\ b_cmds = <<>>
    /\ b_nfail = 0

StageIdle ==
    /\ rs_result_dict = NoResult
    /\ rs_before = NoResult
    /\ rs_stage = ""
    /\ rs_outcome = NoResult
    /\ rs_returned = "none"
    /\ rs_pc = "idle"

\* run_tests(hayroll_path) is called (lines 203-206), in an environment where
\* subprocess.run has the outcomes env.
RunnerStart(env) ==
    /\ outcomes = env
    /\ program_results = <<>>
    /\ prog = 1
    /\ pc = IF test_programs # <<>> THEN "compile_c_program" ELSE "done"
    /\ ci = IF test_programs # <<>> THEN 1 ELSE 0
    /\ ti = 0
    /\ c_test_results = <<>>
    /\ transpile_results = NoStatus
    /\ rust_test_results = <<>>
    /\ compile_result = NoCompileResult
    /\ test_results = <<>>
    /\ cmds = <<>>
    /\ nfail = 0
    /\ run = 1
    /\ baseline = <<>>
    /\ baseline_results = <<>>
    /\ forced = 0
    /\ FlagsIdle
    /\ ScriptIdle
    /\ BenchIdle
    /\ StageIdle

RunnerInit(env) ==
    /\ test_programs \in get_test_programs
    /\ RunnerStart(env)

Init == RunnerInit(CmdOutcomes)

Next ==
    \/ CompileCProgram
    \/ RunSingleTest
    \/ RunTranspile
    \/ CompileRustProgram
    \/ LinkAndRunRustTest

Spec == Init /\ [][Next]_vars

\* -------------------------------------- the isolation comparison (two runs)

\* run_tests is run a second time over the same test_programs, with the
\* commands giving the outcomes of the first run, except the Build commands
\* of one program a.
Rerun ==
    /\ pc = "done"
    /\ run = 1
    /\ \E a \in DOMAIN test_programs : forced' = a
    /\ run' = 2
    /\ baseline' = cmds
    /\ baseline_results' = program_results
    /\ cmds' = <<>>
    /\ nfail' = 0
    /\ program_results' = <<>>
    /\ StartProgram(1)
    /\ UNCHANGED <<test_programs, outcomes, flag_vars, script_vars,
                   bench_vars, stage_vars>>

NextIsolation ==
    \/ CompileCProgram
    \/ RunSingleTest
    \/ RunTranspile
    \/ CompileRustProgram
    \/ LinkAndRunRustTest
    \/ Rerun

\* Both runs see commands that exit with 0 or not: run_command treats a
\* command that cannot be started like one that exits non-zero, up to the
\* text of stderr.
InitIsolation == RunnerInit({"ok", "nonzero"})

SpecIsolation == InitIsolation /\ [][NextIsolation]_vars

\* ------------------------------------------ a program with three test files

ThreeTestFiles == <<"tests/t1.c", "tests/t2.c", "tests/t3.c">>

\* get_test_programs() returns one program with three test files, with or
\* without the optional flag; the commands exit with 0 or not.
InitThreeTests ==
    /\ test_programs \in
           {<<[tests |-> ThreeTestFiles,
               compile_flags |-> SubSeq(FlagNames, 1, f)]>> :
               f \in 0..Len(FlagNames)}
    /\ RunnerStart({"ok", "nonzero"})

SpecThreeTests == InitThreeTests /\ [][Next]_vars

\* ------------------------------------------ commands that do not terminate

\* The commands the function f of run_tests runs for the current program,
\* combination and test file, in order.
CommandsOf(f) ==
    IF f = "compile_c_program"
    THEN <<Entry("c", "make clean", "", ci, 0, "ok"),
           Entry("c", "make", compile_flag_combinations[ci], ci, 0, "ok")>>
    ELSE IF f = "run_single_test"
    THEN <<Entry("c", "test", program.tests[ti], ci, ti, "ok")>>
    ELSE IF f = "run_transpile"
    THEN <<Entry("transpile", "make clean", "", 0, 0, "ok"),
           Entry("transpile", "make", Join(program.compile_flags), 0, 0, "ok"),
           Entry("transpile", "hayroll", "", 0, 0, "ok")>>
    ELSE IF f = "compile_rust_program"
    THEN <<Entry("rust", "cargo build", compile_flag_combinations[ci], ci, 0,
                 "ok")>>
    ELSE <<Entry("rust", "gcc", program.tests[ti], ci, ti, "ok"),
           Entry("rust", "rust_test", program.tests[ti], ci, ti, "ok")>>

\* run_command, lines 28-34: subprocess.run is given no timeout, so it never
\* raises TimeoutExpired; when the n-th command of the function at pc does not
\* terminate, subprocess.run does not come back and run_tests waits in it.
\* The commands before it in the function came back (the link with exit
\* status 0 when the hanging command is the linked executable).
CommandHangs ==
    /\ "hang" \in outcomes
    /\ pc \notin {"done", "waiting"}
    /\ \E n \in DOMAIN CommandsOf(pc) :
        \E os \in [1..(n - 1) -> outcomes \ {"hang"}] :
            /\ pc = "link_and_run_rust_test"
               => \A k \in DOMAIN os : os[k] = "ok"
            /\ Ran([k \in 1..n |->
                       [CommandsOf(pc)[k] EXCEPT
                           !.o = IF k < n THEN os[k] ELSE "hang"]])
    /\ pc' = "waiting"
    /\ UNCHANGED <<test_programs, program_results, prog, ci, ti, c_test_results,
                   transpile_results, rust_test_results, compile_result,
                   test_results, outcomes, run, baseline, baseline_results,
                   forced, flag_vars, script_vars, bench_vars, stage_vars>>

\* run_tests in an environment where a command may also not terminate.
InitHang == RunnerInit({"ok", "nonzero", "hang"})

NextHang ==
    \/ CompileCProgram
    \/ RunSingleTest
    \/ RunTranspile
    \/ CompileRustProgram
    \/ LinkAndRunRustTest
    \/ CommandHangs

\* The interpreter always takes the next step of run_tests when there is one.
SpecHang == InitHang /\ [][NextHang]_vars /\ WF_vars(NextHang)

\* --------------------------------- get_compile_flag_combinations on its own

\* The flags a call may be given: ordinary flags, a flag that is two
\* space-separated words, and the empty string.
PlainFlags == {"-DA", "-DB", "-DC", "-DD"}
FlagUniverse == PlainFlags \cup {"-DA -DB", ""}

\* Lists of pairwise distinct flags, MaxComboFlags at most.
FlagLists ==
    {fl \in UNION {[1..n -> FlagUniverse] : n \in 0..MaxComboFlags} :
        \A i, j \in DOMAIN fl : i # j => fl[i] # fl[j]}

RunnerIdle ==
    /\ test_programs = <<>>
    /\ program_results = <<>>
    /\ prog = 1
    /\ pc = "done"
    /\ ci = 0
    /\ ti = 0
    /\ c_test_results = <<>>
    /\ transpile_results = NoStatus
    /\ rust_test_results = <<>>
    /\ compile_result = NoCompileResult
    /\ test_results = <<>>
    /\ cmds = <<>>
    /\ nfail = 0
    /\ outcomes = {}
    /\ run = 1
    /\ baseline = <<>>
    /\ baseline_results = <<>>
    /\ forced = 0

InitFlags == FlagsIdle /\ RunnerIdle /\ ScriptIdle /\ BenchIdle /\ StageIdle

\* A call get_compile_flag_combinations(flags) and its return value.
CallGetCompileFlagCombinations ==
    /\ \E flags \in FlagLists :
        /\ compile_flags' = flags
        /\ combinations' = get_compile_flag_combinations(flags)
    /\ f_pc' = "returned"
    /\ UNCHANGED <<defaults, refs, calls>>
    /\ UNCHANGED <<runner_vars, script_vars, bench_vars, stage_vars>>

NextFlags == CallGetCompileFlagCombinations

SpecFlags == InitFlags /\ [][NextFlags]_vars

\* ------------------- get_compile_flag_combinations called again and again

\* The flag lists of the calls: the lists of distinct flags of CallFlags.
CallFlags == {"-DA", "-DB"}
CallFlagLists ==
    {fl \in UNION {[1..n -> CallFlags] : n \in 0..Cardinality(CallFlags)} :
        \A i, j \in DOMAIN fl : i # j => fl[i] # fl[j]}

\* One more call get_compile_flag_combinations(flags) of the process, with
\* the list objects it leaves behind.
CallInSequence ==
    /\ Len(calls) < MaxCalls
    /\ \E flags \in CallFlagLists :
        LET call == get_compile_flag_combinations_objects(flags)
        IN  /\ compile_flags' = flags
            /\ combinations' = call.returned
            /\ defaults' = call.defaults
            /\ refs' = call.refs
            /\ calls' = Append(calls, [flags |-> flags,
                                       returned |-> call.returned])
    /\ f_pc' = "returned"
    /\ UNCHANGED <<runner_vars, script_vars, bench_vars, stage_vars>>

NextCalls == CallInSequence

SpecCalls == InitFlags /\ [][NextCalls]_vars

\* ------------------------------------------------ src/scripts/run_tests.py

\* str(stage) of each Stage, in the order of the enumeration.
StageNames == <<"c_build", "transpile", "rust_build", "rust_link", "rust_test">>

\* What subprocess.run can do with a command: return (exit 0 or not, with
\* some text on stderr) or raise (the working directory does not exist).
ScriptOutcomes ==
    [kind : {"ok", "nonzero"}, stderr : {"", "E1"}]
    \cup {[kind |-> "raise", stderr |-> ""]}

\* run_command: the tuple it returns when subprocess.run returns.
script_run_command(o) == <<o.kind = "ok", o.stderr>>

\* The dictionary is replaced by the keyword arguments.
UpdateReplacing(d, kv) == kv

\* dict.update(**kv)
Update(d, kv) ==
    [k \in DOMAIN d \cup DOMAIN kv |-> IF k \in DOMAIN kv THEN kv[k] ELSE d[k]]

\* run_stage: result_dict after the call (lines 81-85).
run_stage_dict(stage, o, result_dict) ==
    LET success == script_run_command(o)[1]
        error == script_run_command(o)[2]
    IN  IF ~success
        THEN Update(result_dict, [status |-> "failed", stage_failed |-> stage,
                                  error |-> error])
        ELSE result_dict

\* A run_stage that reports success whatever the command did.
run_stage_always_true(o) == TRUE

\* run_stage: the value it returns.
run_stage(o) == script_run_command(o)[1]

\* The programs the metadata file can list: any prefix of TestFiles as tests.
ScriptPrograms == [tests : {SubSeq(TestFiles, 1, t) : t \in 0..Len(TestFiles)}]

ScriptMetadata ==
    UNION {[1..n -> ScriptPrograms] : n \in 0..Len(ProgramNames)}

\* lines 109-115
NewProgramResult(p) ==
    [program |-> ProgramNames[p], status |-> "passed", stage_failed |-> "",
     error |-> "", tests |-> <<>>]

ScriptEntry(stage, t, o) ==
    [prog |-> s_prog, stage |-> stage, ti |-> t, kind |-> o.kind]

ScriptCost(o) == IF o.kind = "ok" THEN 0 ELSE 1

\* The commands of es are given to subprocess.run, with outcomes os.
ScriptRan(es, os) ==
    LET cost == IF Len(os) = 1 THEN ScriptCost(os[1])
                ELSE ScriptCost(os[1]) + ScriptCost(os[2])
    IN  /\ s_nfail + cost <= MaxScriptFails
        /\ s_nfail' = s_nfail + cost
        /\ s_cmds' = s_cmds \o es

\* The loop goes on to program p (lines 104-117), or ends.
ScriptStartProgram(p) ==
    /\ s_prog' = p
    /\ s_ti' = 0
    /\ IF p <= Len(metadata)
       THEN s_pc' = "c_build" /\ program_result' = NewProgramResult(p)
       ELSE s_pc' = "finally" /\ program_result' = program_result

\* An exception leaves the for loop for `except Exception` (lines 184-185).
ScriptRaise ==
    /\ raised' = TRUE
    /\ s_pc' = "finally"
    /\ UNCHANGED <<overall_results, program_result, s_prog, s_ti>>

\* The result is appended and the loop is left when the program failed.
ScriptRecordLeavingOnFailure(result) ==
    /\ overall_results' = Append(overall_results, result)
    /\ IF result.status = "failed"
       THEN /\ s_pc' = "finally"
            /\ UNCHANGED <<program_result, s_prog, s_ti>>
       ELSE ScriptStartProgram(s_prog + 1)
    /\ UNCHANGED raised

\* overall_results.append(program_result), then the next program.
ScriptRecord(result) ==
    /\ overall_results' = Append(overall_results, result)
    /\ ScriptStartProgram(s_prog + 1)
    /\ UNCHANGED raised

\* Stage 1: lines 119-122.
ScriptCBuild ==
    /\ s_pc = "c_build"
    /\ \E o \in ScriptOutcomes :
        /\ ScriptRan(<<ScriptEntry("c_build", 0, o)>>, <<o>>)
        /\ IF o.kind = "raise" THEN ScriptRaise
           ELSE IF ~run_stage(o)
           THEN ScriptRecord(run_stage_dict("c_build", o, program_result))
           ELSE /\ s_pc' = "transpile"
                /\ UNCHANGED <<overall_results, program_result, s_prog, s_ti,
                               raised>>
    /\ UNCHANGED <<metadata, written, flag_vars, runner_vars, bench_vars,
                   stage_vars>>

\* Stage 2: lines 124-132.
ScriptTranspile ==
    /\ s_pc = "transpile"
    /\ \E o \in ScriptOutcomes :
        /\ ScriptRan(<<ScriptEntry("transpile", 0, o)>>, <<o>>)
        /\ IF o.kind = "raise" THEN ScriptRaise
           ELSE IF ~run_stage(o)
           THEN ScriptRecord(run_stage_dict("transpile", o, program_result))
           ELSE /\ s_pc' = "rust_build"
                /\ UNCHANGED <<overall_results, program_result, s_prog, s_ti,
                               raised>>
    /\ UNCHANGED <<metadata, written, flag_vars, runner_vars, bench_vars,
                   stage_vars>>

\* Stage 3: lines 134-142; with no tests the loop of lines 145-180 is empty
\* and line 182 records the program.
ScriptRustBuild ==
    /\ s_pc = "rust_build"
    /\ \E o \in ScriptOutcomes :
        /\ ScriptRan(<<ScriptEntry("rust_build", 0, o)>>, <<o>>)
        /\ IF o.kind = "raise" THEN ScriptRaise
           ELSE IF ~run_stage(o)
           THEN ScriptRecord(run_stage_dict("rust_build", o, program_result))
           ELSE IF metadata[s_prog].tests = <<>>
           THEN ScriptRecord(program_result)
           ELSE /\ s_pc' = "test"
                /\ s_ti' = 1
                /\ UNCHANGED <<overall_results, program_result, s_prog, raised>>
    /\ UNCHANGED <<metadata, written, flag_vars, runner_vars, bench_vars,
                   stage_vars>>

\* program_result after a test's stage failed (lines 161-164, 174-177).
FailedTest(stage, test_result) ==
    LET updated == Update(program_result,
                          [status |-> "failed", stage_failed |-> stage])
    IN  [updated EXCEPT !.tests = Append(@, test_result)]

\* Stages 4-5: one iteration of the per-test loop (lines 145-180).
ScriptTest ==
    /\ s_pc = "test"
    /\ \E ol \in ScriptOutcomes, oe \in ScriptOutcomes :
        LET test == metadata[s_prog].tests[s_ti]
            test_result == [name |-> test, status |-> "passed"]
            link == ScriptEntry("rust_link", s_ti, ol)
            exec == ScriptEntry("rust_test", s_ti, oe)
        IN  IF ol.kind # "ok"
            THEN /\ oe = [kind |-> "ok", stderr |-> ""]
                 /\ ScriptRan(<<link>>, <<ol>>)
                 /\ IF ol.kind = "raise" THEN ScriptRaise
                    ELSE ScriptRecord(
                             FailedTest("rust_link",
                                 run_stage_dict("rust_link", ol, test_result)))
            ELSE /\ ScriptRan(<<link, exec>>, <<ol, oe>>)
                 /\ IF oe.kind = "raise" THEN ScriptRaise
                    ELSE IF ~run_stage(oe)
                    THEN ScriptRecord(
                             FailedTest("rust_test",
                                 run_stage_dict("rust_test", oe, test_result)))
                    ELSE LET result ==
                                 [program_result EXCEPT
                                     !.tests = Append(@, test_result)]
                         IN  IF s_ti < Len(metadata[s_prog].tests)
                             THEN /\ program_result' = result
                                  /\ s_ti' = s_ti + 1
                                  /\ UNCHANGED <<overall_results, s_prog, s_pc,
                                                 raised>>
                             ELSE ScriptRecord(result)
    /\ UNCHANGED <<metadata, written, flag_vars, runner_vars, bench_vars,
                   stage_vars>>

\* A summary whose failed_at counters count every failed program at every
\* stage.
SummaryAnyStage(rs) ==
    LET failed == Cardinality({k \in DOMAIN rs : rs[k].status = "failed"})
    IN  [total_programs |-> Len(rs),
         programs_passed |-> Len(rs) - failed,
         programs_failed |-> failed,
         failed_at |->
             [stage \in {StageNames[k] : k \in DOMAIN StageNames} |-> failed]]

\* The summary of lines 189-204.
Summary(rs) ==
    LET total_programs == Len(rs)
        programs_passed ==
            Cardinality({k \in DOMAIN rs : rs[k].status = "passed"})
        failed_at ==
            [stage \in {StageNames[k] : k \in DOMAIN StageNames} |->
                Cardinality({k \in DOMAIN rs :
                                /\ rs[k].status = "failed"
                                /\ rs[k].stage_failed = stage})]
    IN  [total_programs |-> total_programs,
         programs_passed |-> programs_passed,
         programs_failed |-> total_programs - programs_passed,
         failed_at |-> failed_at]

\* finally: lines 187-207.
ScriptFinally ==
    /\ s_pc = "finally"
    /\ written' = [summary |-> Summary(overall_results),
                   overall_results |-> overall_results]
    /\ s_pc' = "done"
    /\ UNCHANGED <<metadata, overall_results, program_result, s_prog, s_ti,
                   raised, s_cmds, s_nfail, flag_vars, runner_vars, bench_vars,
                   stage_vars>>

\* run_tests(METADATA_FILE) is called: lines 98-104.
InitScript ==
    /\ metadata \in ScriptMetadata
    /\ overall_results = <<>>
    /\ s_prog = 1
    /\ s_ti = 0
    /\ s_pc = IF metadata # <<>> THEN "c_build" ELSE "finally"
    /\ program_result = IF metadata # <<>> THEN NewProgramResult(1) ELSE NoResult
    /\ raised = FALSE
    /\ written = NoResult
    /\ s_cmds = <<>>
    /\ s_nfail = 0
    /\ FlagsIdle
    /\ RunnerIdle
    /\ BenchIdle
    /\ StageIdle

NextScript ==
    \/ ScriptCBuild
    \/ ScriptTranspile
    \/ ScriptRustBuild
    \/ ScriptTest
    \/ ScriptFinally

SpecScript == InitScript /\ [][NextScript]_vars

\* --------------------------------------------------- run_stage on its own

\* The dictionaries run_tests passes to run_stage: the program_result of a
\* program (lines 109-115), without tests or with a test already appended,
\* and the test_result of a test (line 148).
ResultDicts ==
    {NewProgramResult(p) : p \in DOMAIN ProgramNames}
    \cup {[NewProgramResult(p) EXCEPT
              !.tests = <<[name |-> TestFiles[1], status |-> "passed"]>>] :
          p \in DOMAIN ProgramNames}
    \cup {[name |-> TestFiles[t], status |-> "passed"] : t \in DOMAIN TestFiles}

InitStage ==
    /\ rs_result_dict \in ResultDicts
    /\ rs_before = rs_result_dict
    /\ rs_stage = ""
    /\ rs_outcome = NoResult
    /\ rs_returned = "none"
    /\ rs_pc = "call"
    /\ FlagsIdle
    /\ RunnerIdle
    /\ ScriptIdle
    /\ BenchIdle

\* A call run_stage(stage, command, path, result_dict): lines 81-85.  When
\* subprocess.run raises, the exception leaves run_stage before line 82.
CallRunStage ==
    /\ rs_pc = "call"
    /\ \E k \in DOMAIN StageNames, o \in ScriptOutcomes :
        /\ rs_stage' = StageNames[k]
        /\ rs_outcome' = o
        /\ IF o.kind = "raise"
           THEN /\ rs_pc' = "raised"
                /\ UNCHANGED <<rs_result_dict, rs_returned>>
           ELSE /\ rs_pc' = "returned"
                /\ rs_result_dict' =
                       run_stage_dict(StageNames[k], o, rs_result_dict)
                /\ rs_returned' = run_stage(o)
    /\ UNCHANGED <<rs_before, flag_vars, runner_vars, script_vars, bench_vars>>

NextStage == CallRunStage

SpecStage == InitStage /\ [][NextStage]_vars

\* ------------------------------------------------------- src/benchmark.py

\* What subprocess.run can do inside run: exit 0, exit non-zero, or raise.
BenchOutcomes == {"ok", "nonzero", "error"}

\* run (lines 7-15): the tuple (success, stdout, stderr) it returns.
bench_run(o) ==
    IF o = "ok" THEN [success |-> TRUE, out |-> "stdout", err |-> ""]
    ELSE IF o = "nonzero"
    THEN [success |-> FALSE, out |-> "stdout", err |-> "stderr"]
    ELSE [success |-> FALSE, out |-> "", err |-> "error"]

\* The programs metadata.json can list: a name, which is also the path under
\* CBench, and any prefix of TestFiles as test_files.
BenchPrograms ==
    [name : {ProgramNames[k] : k \in DOMAIN ProgramNames},
     test_files : {SubSeq(TestFiles, 1, t) : t \in 0..Len(TestFiles)}]

BenchMetadata ==
    UNION {[1..n -> BenchPrograms] : n \in 0..Len(ProgramNames)}

\* lines 32-36
NewBenchResult ==
    [status |-> "passed", failed_stage |-> "None", test_results |-> <<>>]

BenchEntry(stage, t, o) ==
    [prog |-> b_prog, stage |-> stage, ti |-> t, kind |-> o]

BenchCost(o) == IF o = "ok" THEN 0 ELSE 1

\* The commands es are given to run, with outcomes os.
BenchRan(es, os) ==
    LET cost == IF Len(os) = 1 THEN BenchCost(os[1])
                ELSE BenchCost(os[1]) + BenchCost(os[2])
    IN  /\ b_nfail + cost <= MaxBenchFails
        /\ b_nfail' = b_nfail + cost
        /\ b_cmds' = b_cmds \o es

\* The program is recorded and the working directory left where it is.
BenchRecordWithoutChdir(result) ==
    /\ b_program_result' = result
    /\ b_results' = Update(b_results, benchmark_metadata[b_prog].name :> result)
    /\ cwd' = cwd
    /\ b_prog' = b_prog + 1
    /\ b_ti' = 0
    /\ b_pc' = IF b_prog < Len(benchmark_metadata) THEN "enter" ELSE "dump"

\* results[name] = program_result; os.chdir(root_dir); then the loop goes on
\* to the next program or ends (lines 43-45, 92-93).
BenchRecord(result) ==
    /\ b_program_result' = result
    /\ b_results' = Update(b_results, benchmark_metadata[b_prog].name :> result)
    /\ cwd' = "root_dir"
    /\ b_prog' = b_prog + 1
    /\ b_ti' = 0
    /\ b_pc' = IF b_prog < Len(benchmark_metadata) THEN "enter" ELSE "dump"

\* program_result after a stage before the tests failed (lines 40-42).
FailedStage(stage, err) ==
    Update(b_program_result,
           [status |-> "failed", failed_stage |-> stage, error |-> err])

\* lines 26-36: os.chdir(Path("CBench") / path), which raises when the
\* directory does not exist, and the fresh program_result.
BenchEnter ==
    /\ b_pc = "enter"
    /\ \E exists \in BOOLEAN :
        /\ b_nfail + (IF exists THEN 0 ELSE 1) <= MaxBenchFails
        /\ b_nfail' = b_nfail + (IF exists THEN 0 ELSE 1)
        /\ IF exists
           THEN /\ cwd' = "CBench/" \o benchmark_metadata[b_prog].name
                /\ b_program_result' = NewBenchResult
                /\ b_pc' = "make"
           ELSE /\ b_pc' = "crashed"
                /\ UNCHANGED <<cwd, b_program_result>>
    /\ UNCHANGED <<benchmark_metadata, b_results, b_prog, b_ti, dumped, b_cmds,
                   flag_vars, runner_vars, script_vars, stage_vars>>

\* lines 38-45
BenchMake ==
    /\ b_pc = "make"
    /\ \E o \in BenchOutcomes :
        /\ BenchRan(<<BenchEntry("make", 0, o)>>, <<o>>)
        /\ IF ~bench_run(o).success
           THEN BenchRecord(FailedStage("make", bench_run(o).err))
           ELSE /\ b_pc' = "transpile"
                /\ UNCHANGED <<b_results, b_program_result, b_prog, b_ti, cwd>>
    /\ UNCHANGED <<benchmark_metadata, dumped, flag_vars, runner_vars,
                   script_vars, stage_vars>>

\* lines 47-56
BenchTranspile ==
    /\ b_pc = "transpile"
    /\ \E o \in BenchOutcomes :
        /\ BenchRan(<<BenchEntry("transpile", 0, o)>>, <<o>>)
        /\ IF ~bench_run(o).success
           THEN BenchRecord(FailedStage("transpile", bench_run(o).err))
           ELSE /\ b_pc' = "rust_build"
                /\ UNCHANGED <<b_results, b_program_result, b_prog, b_ti, cwd>>
    /\ UNCHANGED <<benchmark_metadata, dumped, flag_vars, runner_vars,
                   script_vars, stage_vars>>

\* lines 58-65; with no test files the loop of lines 67-90 is empty and
\* lines 92-93 record the program.
BenchRustBuild ==
    /\ b_pc = "rust_build"
    /\ \E o \in BenchOutcomes :
        /\ BenchRan(<<BenchEntry("rust_build", 0, o)>>, <<o>>)
        /\ IF ~bench_run(o).success
           THEN BenchRecord(FailedStage("rust_build", bench_run(o).err))
           ELSE IF benchmark_metadata[b_prog].test_files = <<>>
           THEN BenchRecord(b_program_result)
           ELSE /\ b_pc' = "test"
                /\ b_ti' = 1
                /\ UNCHANGED <<b_results, b_program_result, b_prog, cwd>>
    /\ UNCHANGED <<benchmark_metadata, dumped, flag_vars, runner_vars,
                   script_vars, stage_vars>>

\* program_result after one iteration of the test loop (lines 67-90).
BenchTestResult(test_file, link, exec) ==
    LET SetTest(v) ==
            [b_program_result EXCEPT
                !.test_results = Update(@, test_file :> v)]
        Failed(r, stage) ==
            [r EXCEPT !.status = "failed", !.failed_stage = stage]
    IN  IF ~link.success
        THEN Failed(SetTest([status |-> "link_failed", error |-> link.err]),
                    "link")
        ELSE IF exec.success
        THEN SetTest([status |-> "passed"])
        ELSE Failed(SetTest([status |-> "failed", stdout |-> exec.out,
                             stderr |-> exec.err]),
                    "test")

\* One iteration of the test loop: lines 67-90.
BenchTest ==
    /\ b_pc = "test"
    /\ \E ol \in BenchOutcomes, oe \in BenchOutcomes :
        LET test_file == benchmark_metadata[b_prog].test_files[b_ti]
            result == BenchTestResult(test_file, bench_run(ol), bench_run(oe))
            link == BenchEntry("link", b_ti, ol)
            exec == BenchEntry("test", b_ti, oe)
        IN  /\ IF bench_run(ol).success
               THEN BenchRan(<<link, exec>>, <<ol, oe>>)
               ELSE oe = "ok" /\ BenchRan(<<link>>, <<ol>>)
            /\ IF b_ti < Len(benchmark_metadata[b_prog].test_files)
               THEN /\ b_program_result' = result
                    /\ b_ti' = b_ti + 1
                    /\ UNCHANGED <<b_results, b_prog, b_pc, cwd>>
               ELSE BenchRecord(result)
    /\ UNCHANGED <<benchmark_metadata, dumped, flag_vars, runner_vars,
                   script_vars, stage_vars>>

\* lines 95-98
BenchDump ==
    /\ b_pc = "dump"
    /\ dumped' = b_results
    /\ b_pc' = "finished"
    /\ UNCHANGED <<benchmark_metadata, b_results, b_program_result, b_prog,
                   b_ti, cwd, b_cmds, b_nfail, flag_vars, runner_vars,
                   script_vars, stage_vars>>

\* The script starts: lines 18-25.
InitBench ==
    /\ benchmark_metadata \in BenchMetadata
    /\ b_results = <<>>
    /\ b_program_result = NoResult
    /\ b_prog = 1
    /\ b_pc = IF benchmark_metadata # <<>> THEN "enter" ELSE "dump"
    /\ b_ti = 0
    /\ cwd = "root_dir"
    /\ dumped = NoResult
    /\ b_cmds = <<>>
    /\ b_nfail = 0
    /\ FlagsIdle
    /\ RunnerIdle
    /\ ScriptIdle
    /\ StageIdle

NextBench ==
    \/ BenchEnter
    \/ BenchMake
    \/ BenchTranspile
    \/ BenchRustBuild
    \/ BenchTest
    \/ BenchDump

SpecBench == InitBench /\ [][NextBench]_vars

\* -------------------------------------------------------------- properties

Recorded(k) == program_results[k]

\* C1 (as claimed): a program's overall status is Passed iff every C-side
\* result passed, Transpile passed and every Rust-side result passed.
C1_OverallPassedIffAllPassed ==
    \A k \in DOMAIN program_results :
        Recorded(k).status.passed <=>
            /\ all_passed(Recorded(k).c_test_results)
            /\ Recorded(k).transpile_results.passed
            /\ all_passed(Recorded(k).rust_test_results)

\* C2 (as claimed): when Transpile fails for a program, no Rust-side command
\* is run for it and its rust_test_results is empty.
C2_TranspileFailureSkipsRust ==
    /\ \A i, j \in DOMAIN cmds :
           (/\ cmds[i].cmd = "hayroll"
            /\ cmds[i].o # "ok"
            /\ cmds[j].prog = cmds[i].prog)
           => cmds[j].side # "rust"
    /\ \A k \in DOMAIN program_results :
           ~Recorded(k).transpile_results.passed
           => Recorded(k).rust_test_results = <<>>

\* C3 (as claimed): for n distinct flags the call returns exactly 2^n
\* combinations, one of them empty, no two equal.
C3_PowerSetNoDuplicates ==
    f_pc = "returned" =>
        /\ Len(combinations) = Pow2(Len(compile_flags))
        /\ \E k \in DOMAIN combinations : combinations[k] = ""
        /\ \A i, j \in DOMAIN combinations :
               i # j => combinations[i] # combinations[j]

\* C3 (amended): exactly 2^n combinations, one of them empty; no two are
\* equal when every flag is a non-empty string without a space.
C3_PowerSetNoDuplicatesPlainFlags ==
    f_pc = "returned" =>
        /\ Len(combinations) = Pow2(Len(compile_flags))
        /\ \E k \in DOMAIN combinations : combinations[k] = ""
        /\ (\A k \in DOMAIN compile_flags : compile_flags[k] \in PlainFlags)
           => \A i, j \in DOMAIN combinations :
                  i # j => combinations[i] # combinations[j]

C3_Witness ==
    /\ f_pc = "returned"
    /\ Len(compile_flags) = 3
    /\ \A k \in DOMAIN compile_flags : compile_flags[k] \in PlainFlags
    /\ Len(combinations) = 8
    /\ combinations[8] = "-DC -DA -DB"

\* The C-side results of program p are one per flag combination, in the
\* combinator's order.
OnePerCombination(p, results) ==
    LET combos == get_compile_flag_combinations(test_programs[p].compile_flags)
    IN  /\ Len(results) = Pow2(Len(test_programs[p].compile_flags))
        /\ Len(results) = Len(combos)
        /\ \A k \in DOMAIN results :
               /\ results[k].compile_result.compile_flag = combos[k]
               /\ \E i \in DOMAIN cmds :
                      /\ cmds[i].prog = p /\ cmds[i].side = "c"
                      /\ cmds[i].cmd = "make" /\ cmds[i].ci = k
                      /\ cmds[i].flag = combos[k]

NoTestCommand(p, s, c) ==
    \A i \in DOMAIN cmds :
        (cmds[i].prog = p /\ cmds[i].side = s /\ cmds[i].ci = c)
        => cmds[i].cmd \notin {"test", "gcc", "rust_test"}

FailedBuildHasNoTests(p, s, results) ==
    \A c \in DOMAIN results :
        ~results[c].compile_result.status.passed
        => /\ results[c].test_results = <<>>
           /\ NoTestCommand(p, s, c)

C6_LinkFailureStopsCombination ==
    \A i, j \in DOMAIN cmds :
        (/\ cmds[i].cmd = "gcc"
         /\ cmds[i].o # "ok"
         /\ i < j
         /\ cmds[j].prog = cmds[i].prog
         /\ cmds[j].side = "rust"
         /\ cmds[j].ci = cmds[i].ci)
        => cmds[j].cmd \notin {"gcc", "rust_test"}

\* C7 (as claimed): in the per-test loop of scripts/run_tests.py, after a
\* test file whose Link passed and whose Execute failed, the loop links every
\* remaining test file of the program.
C7_ExecuteFailureNotBlocking ==
    (s_pc = "done" /\ ~raised) =>
        \A i \in DOMAIN s_cmds :
            (s_cmds[i].stage = "rust_test" /\ s_cmds[i].kind = "nonzero")
            => /\ overall_results[s_cmds[i].prog].status = "failed"
               /\ \A t \in DOMAIN metadata[s_cmds[i].prog].tests :
                      t > s_cmds[i].ti
                      => \E j \in DOMAIN s_cmds :
                             /\ s_cmds[j].prog = s_cmds[i].prog
                             /\ s_cmds[j].stage = "rust_link"
                             /\ s_cmds[j].ti = t

BenchOwner ==
    IF b_pc \in {"make", "transpile", "rust_build", "test"}
    THEN b_prog ELSE b_prog - 1

\* The failing commands of program p, by position in the log.
BenchFailures(p) ==
    {i \in DOMAIN b_cmds : b_cmds[i].prog = p /\ b_cmds[i].kind # "ok"}

\* C9 (as claimed): in benchmark.py a recorded failed_stage is never
\* overwritten: it is the stage of the earliest failure of the program.
C9_FailedStageIsEarliestFailure ==
    BenchFailures(BenchOwner) # {} =>
        LET first == CHOOSE i \in BenchFailures(BenchOwner) :
                         \A j \in BenchFailures(BenchOwner) : i <= j
        IN  /\ b_program_result.status = "failed"
            /\ b_program_result.failed_stage = b_cmds[first].stage

\* C10 (as claimed): a command that cannot be started makes run_command
\* return Failed: no exception escapes, a failed stage is recorded for that
\* program, and every later program is processed and recorded.
C10_SpawnFailureIsRecorded ==
    s_pc = "done" =>
           /\ ~raised
           /\ Len(overall_results) = Len(metadata)
           /\ \A i \in DOMAIN s_cmds :
                  s_cmds[i].kind = "raise"
                  => overall_results[s_cmds[i].prog].status = "failed"

\* C11 (as claimed): a command that does not terminate is cut off by a
\* timeout: run_command returns Failed with the diagnostic "Command timed out"
\* and run_tests goes on and terminates.
C11_HungCommandTimesOut ==
    <>(/\ pc = "done"
       /\ Len(program_results) = Len(test_programs))

TranspileOf(p) ==
    {i \in DOMAIN cmds : cmds[i].prog = p /\ cmds[i].cmd = "hayroll"}

StatusIsBuildAndTests(results) ==
    \A c \in DOMAIN results :
        results[c].status.passed <=>
            /\ results[c].compile_result.status.passed
            /\ \A t \in DOMAIN results[c].test_results :
                   results[c].test_results[t].status.passed

RECURSIVE CountField(_, _, _)
CountField(rs, field, value) ==
    IF rs = <<>> THEN 0
    ELSE (IF rs[1][field] = value THEN 1 ELSE 0)
         + CountField(Tail(rs), field, value)

RECURSIVE SumFailedAt(_, _)
SumFailedAt(failed_at, stages) ==
    IF stages = <<>> THEN 0
    ELSE failed_at[stages[1]] + SumFailedAt(failed_at, Tail(stages))

\* C15: in the summary written by scripts/run_tests.py, total_programs is the
\* number of recorded results, programs_passed the number with status passed,
\* failed_at_<stage> the number whose stage_failed is that stage, and
\* programs_passed plus the sum of the failed_at_<stage> counters is
\* total_programs.
C15_SummaryCounts ==
    s_pc = "done" =>
        LET summary == written.summary
            rs == written.overall_results
        IN  /\ rs = overall_results
            /\ summary.total_programs = Len(rs)
            /\ summary.programs_passed = CountField(rs, "status", "passed")
            /\ DOMAIN summary.failed_at =
                   {StageNames[k] : k \in DOMAIN StageNames}
            /\ \A k \in DOMAIN StageNames :
                   summary.failed_at[StageNames[k]] =
                       CountField(rs, "stage_failed", StageNames[k])
            /\ summary.programs_passed
                   + SumFailedAt(summary.failed_at, StageNames)
                   = summary.total_programs

C15_Witness ==
    /\ s_pc = "done"
    /\ written.summary.total_programs = 2
    /\ written.summary.programs_passed = 1
    /\ written.summary.failed_at["rust_link"] = 1
    /\ written.summary.failed_at["c_build"] = 0

\* Program k has exactly one optional flag and, of all its commands, only the
\* C build of the combination with that flag failed.
OnlyFlagBuildFails(k) ==
    /\ Len(test_programs[k].compile_flags) = 1
    /\ \E i \in DOMAIN cmds :
           /\ cmds[i].prog = k /\ cmds[i].side = "c" /\ cmds[i].cmd = "make"
           /\ cmds[i].flag = test_programs[k].compile_flags[1]
           /\ cmds[i].o # "ok"
           /\ \A j \in DOMAIN cmds :
                  (cmds[j].prog = k /\ j # i) => cmds[j].o = "ok"

\* The two C-side results of the scenario and the overall status.
TwoResultsOneFailedAtBuild(r) ==
    /\ Len(r.c_test_results) = 2
    /\ r.c_test_results[1].compile_result.compile_flag = ""
    /\ r.c_test_results[1].status.passed
    /\ ~r.c_test_results[2].status.passed
    /\ ~r.c_test_results[2].compile_result.status.passed
    /\ r.c_test_results[2].test_results = <<>>
    /\ ~r.status.passed

\* C16 (as claimed): for a program with exactly one optional flag whose Build
\* fails only for the combination with that flag, two flag-combination
\* results are recorded, one Passed (no flag) and one Failed at Build with no
\* test results, the overall status is Failed and the failed stage recorded
\* for the program is the C build/test stage.
C16_FlagBuildFailureScenario ==
    \A k \in DOMAIN program_results :
        OnlyFlagBuildFails(k)
        => /\ TwoResultsOneFailedAtBuild(Recorded(k))
           /\ "stage_failed" \in DOMAIN Recorded(k)
           /\ Recorded(k).stage_failed = "C_TEST"

\* C17 (as claimed): when a combination has three test files and the Link of
\* the second fails in run_rust_tests, the test results of the combination
\* are exactly one entry, for file 2 and Failed, and files 1 and 3 are never
\* linked or executed for that combination.
C17_LinkFailureSecondOfThree ==
    \A k \in DOMAIN program_results : \A i \in DOMAIN cmds :
        (/\ Len(test_programs[k].tests) = 3
         /\ cmds[i].prog = k
         /\ cmds[i].cmd = "gcc"
         /\ cmds[i].ti = 2
         /\ cmds[i].o # "ok")
        => LET r == Recorded(k).rust_test_results[cmds[i].ci]
           IN  /\ Len(r.test_results) = 1
               /\ r.test_results[1].test_file = test_programs[k].tests[2]
               /\ ~r.test_results[1].status.passed
               /\ \A j \in DOMAIN cmds :
                      (/\ cmds[j].prog = k
                       /\ cmds[j].side = "rust"
                       /\ cmds[j].ci = cmds[i].ci
                       /\ cmds[j].cmd \in {"gcc", "rust_test"})
                      => cmds[j].ti = 2

\* C18: when no command raises, overall_results ends with exactly one entry
\* per program of the metadata, in metadata order, whichever stages failed:
\* a failing program is recorded once and the programs after it are still
\* processed.
C18_OneEntryPerProgram ==
    /\ ~raised =>
           /\ Len(overall_results) = s_prog - 1
           /\ \A k \in DOMAIN overall_results :
                  overall_results[k].program = ProgramNames[k]
    /\ (s_pc = "done" /\ ~raised) =>
           /\ Len(overall_results) = Len(metadata)
           /\ written.overall_results = overall_results
           /\ \A k \in DOMAIN metadata :
                  \E i \in DOMAIN s_cmds :
                      s_cmds[i].prog = k /\ s_cmds[i].stage = "c_build"

C18_Witness ==
    /\ s_pc = "done"
    /\ ~raised
    /\ Len(metadata) = 2
    /\ overall_results[1].status = "failed"
    /\ overall_results[1].stage_failed = "transpile"
    /\ overall_results[2].status = "failed"
    /\ overall_results[2].stage_failed = "rust_test"

\* The place of a stage command in the fixed order of a program: C_BUILD,
\* TRANSPILE, RUST_BUILD, then RUST_LINK and RUST_TEST of each test file.
StagePlace(e) ==
    IF e.stage = "c_build" THEN 1
    ELSE IF e.stage = "transpile" THEN 2
    ELSE IF e.stage = "rust_build" THEN 3
    ELSE IF e.stage = "rust_link" THEN 2 + 2 * e.ti
    ELSE 3 + 2 * e.ti

\* The positions in the log of the stage commands of program p.
StagesOf(p) == {i \in DOMAIN s_cmds : s_cmds[i].prog = p}

\* C19: the stage commands of a program are run in the fixed order C_BUILD,
\* TRANSPILE, RUST_BUILD, then RUST_LINK and RUST_TEST per test file, each
\* only if every stage command run before it for the program passed; so at
\* most one stage fails per program, a recorded status is failed exactly
\* when stage_failed names the failing stage, and passed exactly when every
\* stage of every test file ran and passed.
C19_StagesInOrderUntilFirstFailure ==
    /\ \A i \in DOMAIN s_cmds :
           /\ StagePlace(s_cmds[i]) =
                  Cardinality({j \in StagesOf(s_cmds[i].prog) : j <= i})
           /\ \A j \in 1..(i - 1) :
                  /\ s_cmds[j].prog <= s_cmds[i].prog
                  /\ s_cmds[j].prog = s_cmds[i].prog => s_cmds[j].kind = "ok"
    /\ \A p \in DOMAIN metadata :
           Cardinality({i \in StagesOf(p) : s_cmds[i].kind # "ok"}) <= 1
    /\ \A p \in DOMAIN overall_results :
           LET r == overall_results[p]
               failures == {i \in StagesOf(p) : s_cmds[i].kind # "ok"}
           IN  /\ r.status \in {"passed", "failed"}
               /\ r.status = "failed" <=>
                      \E i \in failures : r.stage_failed = s_cmds[i].stage
               /\ r.status = "failed" <=>
                      \E k \in DOMAIN StageNames :
                          r.stage_failed = StageNames[k]
               /\ r.status = "passed" <=>
                      /\ failures = {}
                      /\ Cardinality(StagesOf(p))
                             = 3 + 2 * Len(metadata[p].tests)

C19_Witness ==
    /\ s_pc = "done"
    /\ ~raised
    /\ Len(overall_results) = 2
    /\ Len(metadata[1].tests) = 2
    /\ overall_results[1].status = "passed"
    /\ Cardinality(StagesOf(1)) = 7
    /\ overall_results[2].status = "failed"
    /\ overall_results[2].stage_failed = "rust_link"
    /\ s_cmds[Len(s_cmds)].stage = "rust_link"
    /\ s_cmds[Len(s_cmds)].ti = 2

\* C20: when the command succeeds run_stage returns True and leaves
\* result_dict as it was; when the command fails it returns False and
\* result_dict differs from what it was only in the keys status ("failed"),
\* stage_failed (the name of the stage) and error (the stderr of the
\* command, as it is).
C20_RunStageFrame ==
    rs_pc = "returned" =>
        IF rs_outcome.kind = "ok"
        THEN /\ rs_returned = TRUE
             /\ rs_result_dict = rs_before
        ELSE /\ rs_returned = FALSE
             /\ DOMAIN rs_result_dict =
                    DOMAIN rs_before \cup {"status", "stage_failed", "error"}
             /\ rs_result_dict.status = "failed"
             /\ rs_result_dict.stage_failed = rs_stage
             /\ rs_result_dict.error = rs_outcome.stderr
             /\ \A key \in DOMAIN rs_before
                               \ {"status", "stage_failed", "error"} :
                    rs_result_dict[key] = rs_before[key]

C20_Witness ==
    /\ rs_pc = "returned"
    /\ rs_before = [name |-> "tests/t1.c", status |-> "passed"]
    /\ rs_outcome = [kind |-> "nonzero", stderr |-> "E1"]
    /\ rs_stage = "rust_link"
    /\ rs_returned = FALSE
    /\ rs_result_dict.name = "tests/t1.c"
    /\ rs_result_dict.error = "E1"

Bit(i, b) == (i \div Pow2(b)) % 2

\* The flags of flags from position j on (1-based) that the bits of i
\* select, in input order: flag j (1-based) is selected by bit n - j.
RECURSIVE SelectedFlags(_, _, _)
SelectedFlags(flags, i, j) ==
    IF j > Len(flags) THEN <<>>
    ELSE (IF Bit(i, Len(flags) - j) = 1 THEN <<flags[j]>> ELSE <<>>)
         \o SelectedFlags(flags, i, j + 1)

\* C22: get_compile_flag_combinations returns the empty combination first
\* and the combination of all flags last, every combination lists its flags
\* in input order, and for n flags the i-th combination (0-based) is made of
\* the flags j (0-based) for which bit n-1-j of i is 1.
C22_EmissionOrder ==
    f_pc = "returned" =>
        LET n == Len(compile_flags)
        IN  /\ Len(combinations) = Pow2(n)
            /\ combinations[1] = ""
            /\ combinations[Pow2(n)] = Join(compile_flags)
            /\ \A i \in 0..(Pow2(n) - 1) :
                   combinations[i + 1]
                       = Join(SelectedFlags(compile_flags, i, 1))

C22_Witness ==
    /\ f_pc = "returned"
    /\ compile_flags = <<"-DB", "-DA", "-DC">>
    /\ combinations = <<"", "-DC", "-DA", "-DA -DC", "-DB", "-DB -DC",
                        "-DB -DA", "-DB -DA -DC">>

\* C23: get_compile_flag_combinations keeps no state across calls: the
\* default list of recursive_update is never changed, no two combinations of
\* a call are the same list object, and after any sequence of earlier calls
\* a call returns what a first call with the same flags returns.
C23_NoStateAcrossCalls ==
    /\ defaults = <<>>
    /\ \A i, j \in DOMAIN refs : i # j => refs[i] # refs[j]
    /\ \A k \in DOMAIN calls :
           calls[k].returned = get_compile_flag_combinations(calls[k].flags)
    /\ \A j, k \in DOMAIN calls :
           calls[j].flags = calls[k].flags
           => calls[j].returned = calls[k].returned

C23_Witness ==
    /\ Len(calls) = 3
    /\ calls[1].flags = <<"-DA", "-DB">>
    /\ calls[2].flags = <<"-DB">>
    /\ calls[3].flags = <<"-DA", "-DB">>
    /\ calls[3].returned = <<"", "-DB", "-DA", "-DA -DB">>
    /\ Len(refs) = 4

\* Between the iterations of benchmark.py and after its loop the working
\* directory is root_dir, every program handled so far has a result under
\* its name and the latest result is that of the program just handled;
\* inside an iteration the working directory is the program's.
BenchBetweenIterations ==
    IF b_pc \in {"make", "transpile", "rust_build", "test"}
    THEN cwd # "root_dir"
    ELSE /\ cwd = "root_dir"
         /\ \A k \in 1..(b_prog - 1) :
                benchmark_metadata[k].name \in DOMAIN b_results
         /\ b_prog > 1 =>
                b_results[benchmark_metadata[b_prog - 1].name]
                    = b_program_result

\* A step of benchmark.py changes results only by ending the iteration of
\* the current program, and ends it only by recording one result under the
\* name of that program and going back to root_dir.
BenchIterationEnds ==
    /\ b_results' # b_results => b_prog' = b_prog + 1
    /\ b_prog' # b_prog =>
           /\ b_prog' = b_prog + 1
           /\ cwd' = "root_dir"
           /\ DOMAIN b_results' =
                  DOMAIN b_results \cup {benchmark_metadata[b_prog].name}
           /\ b_results'[benchmark_metadata[b_prog].name] = b_program_result'
           /\ \A name \in DOMAIN b_results :
                  name # benchmark_metadata[b_prog].name
                  => b_results'[name] = b_results[name]

\* C24: in benchmark.py the working directory is root_dir at the start of
\* every program's iteration and after the loop: every way out of an
\* iteration (make, transpile or rust build failure, or completion) goes
\* back to root_dir and records exactly one result for the program before
\* the next program starts.
C24_WorkingDirectoryRestored ==
    []BenchBetweenIterations /\ [][BenchIterationEnds]_vars

C24_Witness ==
    /\ b_pc = "dump"
    /\ cwd = "root_dir"
    /\ Len(benchmark_metadata) = 2
    /\ benchmark_metadata[1].name = "p1"
    /\ benchmark_metadata[2].name = "p2"
    /\ benchmark_metadata[2].test_files # <<>>
    /\ b_results["p1"].failed_stage = "transpile"
    /\ b_results["p2"].status = "passed"
    /\ \E i \in DOMAIN b_cmds :
           b_cmds[i].prog = 2 /\ b_cmds[i].stage = "test"

====
